---- MODULE Spec2Model ----
(***************************************************************************)
(* A state-machine model of python-package/lightgbm/engine.py: the        *)
(* training controller train(), the cross-validation controller cv(), the *)
(* fold partitioner _make_n_folds() and the aggregator _agg_cv_result().  *)
(*                                                                         *)
(* One call of train / cv / _make_n_folds is one run of the machine.  The  *)
(* arguments of the call are drawn in Init.  A call is cut into steps at   *)
(* the points where it hands control to code outside engine.py whose       *)
(* outcome the controller reacts to: every callback invocation is a step.  *)
(* Optional Python values are sequences of length 0 (None) or 1.           *)
(***************************************************************************)
EXTENDS Integers, Sequences, FiniteSets, TLC

\* ------------------------------------------------------------------ bounds
\* callback objects the caller owns
NumCallbacks == 2
\* largest num_boost_round
MaxRounds == 2
\* longest valid_sets list
MaxValidSets == 3
\* most rows of the full data set handed to the fold partitioner
MaxRows == 4
\* largest nfold
MaxFolds == 3

\* ------------------------------------------------------------- Python values
None == <<>>
Some(x) == <<x>>
IsNone(o) == o = <<>>
Val(o) == o[1]

Range(q) == {q[k] : k \in DOMAIN q}

SeqsUpTo(S, n) == UNION {[1..k -> S] : k \in 0..n}

Perms(S) == {q \in [1..Cardinality(S) -> S] : \A a, b \in 1..Cardinality(S) : a # b => q[a] # q[b]}

Min(a, b) == IF a <= b THEN a ELSE b

RECURSIVE Concat(_)
Concat(qs) == IF qs = <<>> THEN <<>> ELSE Head(qs) \o Concat(Tail(qs))

\* ------------------------------------------------------ callback objects
\* Callbacks the caller passes are 1..NumCallbacks; the four further ones are
\* the objects the callback module builds for the shorthand arguments.
UserCallbacks == 1..NumCallbacks
CbPrint  == NumCallbacks + 1
CbEarly  == NumCallbacks + 2
CbReset  == NumCallbacks + 3
CbRecord == NumCallbacks + 4
MadeCallbacks == {CbPrint, CbEarly, CbReset, CbRecord}
AllCallbacks == UserCallbacks \cup MadeCallbacks

\* order attributes a callback may carry when it is handed in
ExplicitOrders == {-1, 0}

\* num_total_iteration of the models a call warm-starts from
WarmStarts == {0, 9}

\* --------------------------------------------------------------- variables
VARIABLES
  entry,                  \* the function called: "train", "cv" or "_make_n_folds"
  pc,                     \* "call", "before", "after", "returned", "raised"
  exc,                    \* the exception that left the call, "" while there is none
  \* arguments of the call
  num_boost_round, init_model, train_set, valid_sets, valid_names,
  callbacks, shorthand, metric,
  num_data, nfold, stratified, shuffle, sklearn, fpreproc,
  raw_results,            \* the argument of a call of _agg_cv_result
  previous,               \* the call this process made before this one, if any
  \* attributes of the callback objects (cb.order is written by train and cv)
  order, before_iteration,
  order_at_call,          \* the order attributes as they were when the call began
  may_mark, may_stop,     \* the callbacks that store a marker, that raise the signal
  \* locals of train and cv
  init_iteration, is_valid_contain_train, callbacks_before_iter, callbacks_after_iter,
  i, pos, evaluation_result_list,
  booster, cvfolds, results,
  \* what the caller gets back
  signal,                 \* the EarlyStopException a callback raised, if any
  last_mark,              \* the round a callback last stored as best_iteration marker
  log                     \* every call made into a collaborator, in order

args == <<num_boost_round, init_model, train_set, valid_sets, valid_names,
          callbacks, shorthand, metric, num_data, nfold, stratified, shuffle,
          sklearn, fpreproc, raw_results, previous, before_iteration, order_at_call, may_mark,
          may_stop>>
locals == <<init_iteration, is_valid_contain_train, callbacks_before_iter,
            callbacks_after_iter, i, pos, evaluation_result_list>>
vars == <<entry, pc, exc, args, order, locals, booster, cvfolds, results, signal,
          last_mark, log>>

\* ------------------------------------------------- callback order resolution
\* default orders that count up from the position itself
AutoOrderFromZero(idx, n) == idx

\* default orders that fall as the position rises
AutoOrderReversed(idx, n) == -1 - idx

\* engine.py 129 / 355: the default order of the callback at 0-based position
\* i of a list of n callbacks
AutoOrder(idx, n) == idx - n

\* a loop that assigns the default whether or not the callback has an order
RECURSIVE SetOrderAlways(_, _, _)
SetOrderAlways(ord, cbs, p) ==
  IF p > Len(cbs) THEN ord
  ELSE SetOrderAlways([ord EXCEPT ![cbs[p]] = Some(AutoOrder(p - 1, Len(cbs)))], cbs, p + 1)

\* a loop that adds the default to whatever order the callback carries
RECURSIVE SetShiftedOrder(_, _, _)
SetShiftedOrder(ord, cbs, p) ==
  IF p > Len(cbs) THEN ord
  ELSE SetShiftedOrder(
         [ord EXCEPT ![cbs[p]] = Some((IF IsNone(@) THEN 0 ELSE Val(@))
                                       + AutoOrder(p - 1, Len(cbs)))],
         cbs, p + 1)

\* engine.py 128-129 / 354-355: cb.__dict__.setdefault('order', i - len(callbacks))
\* for the callbacks from 1-based position p on
RECURSIVE SetDefaultOrder(_, _, _)
SetDefaultOrder(ord, cbs, p) ==
  IF p > Len(cbs) THEN ord
  ELSE SetDefaultOrder(
         IF IsNone(ord[cbs[p]])
           THEN [ord EXCEPT ![cbs[p]] = Some(AutoOrder(p - 1, Len(cbs)))]
           ELSE ord,
         cbs, p + 1)

\* engine.py 125-130 / 351-356: the order attributes after the loop
ResolveOrder(ord, cbsOpt) ==
  IF IsNone(cbsOpt) THEN ord ELSE SetDefaultOrder(ord, Val(cbsOpt), 1)

\* engine.py 126, 130 / 352, 356: callbacks = set(callbacks)
CallbackSet(cbsOpt) == IF IsNone(cbsOpt) THEN {} ELSE Range(Val(cbsOpt))

\* engine.py 133-145: the callbacks train adds for its shorthand arguments
TrainMade(sh) ==
  (IF "verbose_eval" \in sh THEN {CbPrint} ELSE {})
  \cup (IF "early_stopping_rounds" \in sh THEN {CbEarly} ELSE {})
  \cup (IF "learning_rates" \in sh THEN {CbReset} ELSE {})
  \cup (IF "evals_result" \in sh THEN {CbRecord} ELSE {})

\* engine.py 357-362: the callbacks cv adds for its shorthand arguments
CvMade(sh) ==
  (IF "early_stopping_rounds" \in sh THEN {CbEarly} ELSE {})
  \cup (IF "verbose_eval" \in sh THEN {CbPrint} ELSE {})

\* a partition that puts no callback before the update
BeforeGroupEmpty(S, bi) == {}

\* engine.py 147 / 364: {cb for cb in callbacks if getattr(cb, 'before_iteration', False)}
BeforeGroup(S, bi) == {cb \in S : bi[cb]}

\* engine.py 148 / 365: callbacks - callbacks_before_iter
AfterGroup(S, bi) == S \ BeforeGroup(S, bi)

\* engine.py 149-150 / 366-367: sorted(group, key=attrgetter('order')).  A set
\* has no order of its own, so callbacks of equal order may come out either way.
SortedByOrder(S, ord) ==
  {q \in Perms(S) : \A a, b \in 1..Cardinality(S) :
                       a < b => Val(ord[q[a]]) <= Val(ord[q[b]])}

\* engine.py 149-150 / 366-367 in a process that has sorted before: a set built
\* from the same list of the same objects is iterated in the same order, and
\* sorted is stable, so with the orders it had then the group comes out as it
\* did then.  group is "before" or "after".
SortedAgain(S, ord, cbsOpt, prev, group) ==
  IF /\ ~IsNone(prev) /\ Val(prev).callbacks = cbsOpt
     /\ Range(Val(prev)[group]) = S /\ Val(prev)[group] \in SortedByOrder(S, ord)
    THEN {Val(prev)[group]}
    ELSE SortedByOrder(S, ord)

\* ------------------------------------------------------------- collaborators
\* Objects a caller may put in valid_sets: the training Dataset itself, other
\* Datasets, and an object that is no Dataset.
OtherDatasets == {"valid_a", "valid_b"}
ValidObjects == {"train_set", "not_a_dataset"} \cup OtherDatasets

\* engine.py 115: isinstance(valid_data, Dataset)
IsDataset(data) == data \in OtherDatasets \cup {"train_set"}

\* str(n) of a natural number, as its decimal digits
RECURSIVE StrOf(_)
StrOf(n) == IF n < 10 THEN <<n>> ELSE StrOf(n \div 10) \o <<n % 10>>

\* engine.py 188: int(s) of a string of decimal digits
RECURSIVE IntOf(_)
IntOf(s) == IF s = <<>> THEN 0 ELSE 10 * IntOf(SubSeq(s, 1, Len(s) - 1)) + s[Len(s)]

\* Booster(params, train_set): no validation set, no attribute, no update yet
NewBooster ==
  [train_data_name |-> <<"training", 0>>, valid |-> <<>>, num_update |-> 0,
   attr_best_iteration |-> None, best_iteration |-> None]

\* Booster.set_train_data_name(name)
SetTrainDataName(b, name) == [b EXCEPT !.train_data_name = name]

\* Booster.add_valid(data, name)
AddValid(b, data, name) == [b EXCEPT !.valid = Append(@, [data |-> data, name |-> name])]

\* Booster.update(fobj): one more iteration
Update(b) == [b EXCEPT !.num_update = @ + 1]

\* Booster.set_attr(best_iteration=str(m))
SetAttr(b, m) == [b EXCEPT !.attr_best_iteration = Some(StrOf(m))]

\* Booster.eval_train(feval): one entry per metric, under the training data's name
EvalTrain(b, metrics) ==
  [m \in 1..Len(metrics) |->
     [data |-> "train_set", name |-> b.train_data_name, metric |-> metrics[m]]]

\* Booster.eval_valid(feval): one entry per registered validation set per metric
EvalValid(b, metrics) ==
  Concat([v \in 1..Len(b.valid) |->
     [m \in 1..Len(metrics) |->
        [data |-> b.valid[v].data, name |-> b.valid[v].name, metric |-> metrics[m]]]])

\* callback.CallbackEnv(model, cvfolds, iteration, begin_iteration, end_iteration,
\* evaluation_result_list)
CallbackEnv(model, folds, iteration, begin, end, res) ==
  [model |-> model, cvfolds |-> folds, iteration |-> iteration,
   begin_iteration |-> begin, end_iteration |-> end, evaluation_result_list |-> res]

\* What one invocation of a callback may do: store a best_iteration marker on
\* the model it was given, raise EarlyStopException(best_iteration), both or
\* neither.  The rounds it can name are the ones run so far, lo..hi.
Outcomes(lo, hi, marks, stops) ==
  [mark : IF marks THEN {None} \cup {Some(m) : m \in lo..hi} ELSE {None},
   stop : IF stops THEN {None} \cup {Some(b) : b \in lo..hi} ELSE {None}]

\* entries of the log
Called(cb, phase, env, raised) ==
  [op |-> "callback", who |-> cb, phase |-> phase, iteration |-> env.iteration,
   env |-> Some(env), raised |-> raised, result |-> None]
Did(op, who, iteration, result) ==
  [op |-> op, who |-> who, phase |-> "", iteration |-> iteration,
   env |-> None, raised |-> FALSE, result |-> result]

\* a loop whose except clause does not take the exception
CaughtNever(out) == FALSE

\* engine.py 185 / 391: the except clause around the sweep of the after-update
\* callbacks takes the EarlyStopException
Caught(out) == ~IsNone(out.stop)

\* ------------------------------------------------------------------- train
\* engine.py 122: the name of an unnamed validation set at 0-based slot idx
DefaultValidName(idx) == <<"valid_", idx>>

\* engine.py 119-122: the name of the independent validation set at 1-based slot p
ValidName(names, p) ==
  IF ~IsNone(names) /\ Len(Val(names)) > p - 1 THEN Val(names)[p] ELSE DefaultValidName(p - 1)

\* a loop that takes no validation set for the training set
IsTrainSetNever(data) == FALSE

\* engine.py 110: valid_data is train_set
IsTrainSet(data) == data = "train_set"

\* engine.py 108-122: the loop over valid_sets from 1-based slot p on; acc is
\* the state of the locals, acc.err the exception that ended the loop
RECURSIVE ReduceValid(_, _, _, _)
ReduceValid(vs, names, p, acc) ==
  IF p > Len(vs) \/ acc.err # "" THEN acc
  ELSE IF IsTrainSet(vs[p])
    THEN IF IsNone(names)
           THEN ReduceValid(vs, names, p + 1, [acc EXCEPT !.contain = TRUE])
           ELSE IF p > Len(Val(names))
                  THEN [acc EXCEPT !.contain = TRUE, !.err = "IndexError"]
                  ELSE ReduceValid(vs, names, p + 1,
                         [acc EXCEPT !.contain = TRUE, !.train_data_name = Val(names)[p]])
    ELSE IF ~IsDataset(vs[p])
      THEN [acc EXCEPT !.err = "TypeError"]
      ELSE ReduceValid(vs, names, p + 1,
             [acc EXCEPT !.reduced = Append(@, vs[p]),
                         !.names = Append(@, ValidName(names, p))])

\* engine.py 99-122
ReducedValidSets(vsOpt, names) ==
  LET acc0 == [err |-> "", contain |-> FALSE, train_data_name |-> <<"training", 0>>,
               reduced |-> <<>>, names |-> <<>>]
  IN IF IsNone(vsOpt) THEN acc0 ELSE ReduceValid(Val(vsOpt), names, 1, acc0)

\* engine.py 156-157: add_valid for every pair of zip(reduced_valid_sets, name_valid_sets)
RECURSIVE AddValidSets(_, _, _, _)
AddValidSets(b, sets, names, p) ==
  IF p > Min(Len(sets), Len(names)) THEN b
  ELSE AddValidSets(AddValid(b, sets[p], names[p]), sets, names, p + 1)

\* engine.py 153-157
ConstructBooster(red) ==
  AddValidSets(IF red.contain THEN SetTrainDataName(NewBooster, red.train_data_name)
                              ELSE NewBooster,
               red.reduced, red.names, 1)

\* a start that is round 0 whatever model the call continues
InitIterationZero(model) == 0

\* engine.py 90
InitIteration(model) == IF IsNone(model) THEN 0 ELSE Val(model)

\* a loop that runs to num_boost_round whatever round it starts from
EndIterationFromZero(begin, rounds) == rounds

\* engine.py 160: the end of range(init_iteration, init_iteration + num_boost_round)
EndIteration(begin, rounds) == begin + rounds

\* engine.py 171-176
TrainEvaluation(b, vsOpt, contain, metrics) ==
  IF IsNone(vsOpt) THEN <<>>
  ELSE (IF contain THEN EvalTrain(b, metrics) ELSE <<>>) \o EvalValid(b, metrics)

\* the marker taken as it is, a 0-based index
BestIterationIndex(attr, rounds) == IF ~IsNone(attr) THEN IntOf(Val(attr)) ELSE rounds

\* engine.py 187-190
BestIteration(attr, rounds) == IF ~IsNone(attr) THEN IntOf(Val(attr)) + 1 ELSE rounds

\* engine.py 187-191: what train does once the loop is over
TrainReturn(b) ==
  /\ booster' = Some([b EXCEPT !.best_iteration =
                        Some(BestIteration(b.attr_best_iteration, num_boost_round))])
  /\ pc' = "returned"

\* engine.py 84-160: everything up to the first round
TrainSetup ==
  /\ entry = "train" /\ pc = "call"
  /\ IF train_set # "Dataset"
       THEN /\ pc' = "raised" /\ exc' = "TypeError"
            /\ UNCHANGED <<order, locals, booster, log>>
       ELSE LET red == ReducedValidSets(valid_sets, valid_names) IN
            IF red.err # ""
              THEN /\ pc' = "raised" /\ exc' = red.err
                   /\ UNCHANGED <<order, locals, booster, log>>
              ELSE LET ord == ResolveOrder(order, callbacks)
                       all == CallbackSet(callbacks) \cup TrainMade(shorthand)
                       b   == ConstructBooster(red)
                   IN /\ order' = ord
                      /\ callbacks_before_iter' \in SortedAgain(BeforeGroup(all, before_iteration),
                                                                 ord, callbacks, previous, "before")
                      /\ callbacks_after_iter' \in SortedAgain(AfterGroup(all, before_iteration),
                                                                ord, callbacks, previous, "after")
                      /\ init_iteration' = InitIteration(init_model)
                      /\ is_valid_contain_train' = red.contain
                      /\ i' = InitIteration(init_model)
                      /\ pos' = 1
                      /\ evaluation_result_list' = None
                      /\ log' = [p \in 1..Len(b.valid) |->
                                   Did("add_valid", 0, InitIteration(init_model), Some(b.valid[p]))]
                      /\ exc' = exc
                      /\ IF num_boost_round > 0
                           THEN booster' = Some(b) /\ pc' = "before"
                           ELSE TrainReturn(b)
  /\ UNCHANGED <<entry, args, cvfolds, results, signal, last_mark>>

\* engine.py 161-167: one before-update callback is called
TrainCallBefore ==
  /\ entry = "train" /\ pc = "before" /\ pos <= Len(callbacks_before_iter)
  /\ \E out \in Outcomes(init_iteration, i, callbacks_before_iter[pos] \in may_mark,
                          callbacks_before_iter[pos] \in may_stop) :
       LET b == IF IsNone(out.mark) THEN Val(booster) ELSE SetAttr(Val(booster), Val(out.mark))
           env == CallbackEnv(Some("booster"), None, i, init_iteration,
                              EndIteration(init_iteration, num_boost_round), None)
       IN /\ log' = Append(log, Called(callbacks_before_iter[pos], "before", env,
                                       ~IsNone(out.stop)))
          /\ booster' = Some(b)
          /\ last_mark' = IF IsNone(out.mark) THEN last_mark ELSE out.mark
          /\ signal' = out.stop
          /\ IF IsNone(out.stop)
               THEN pos' = pos + 1 /\ UNCHANGED <<pc, exc>>
               ELSE pc' = "raised" /\ exc' = "EarlyStopException" /\ pos' = pos
  /\ UNCHANGED <<entry, args, order, init_iteration, is_valid_contain_train,
                 callbacks_before_iter, callbacks_after_iter, i, evaluation_result_list,
                 cvfolds, results>>

\* engine.py 169-176: the update and the evaluation of the round
TrainUpdate ==
  /\ entry = "train" /\ pc = "before" /\ pos > Len(callbacks_before_iter)
  /\ LET b == Update(Val(booster))
         res == TrainEvaluation(b, valid_sets, is_valid_contain_train, metric)
     IN /\ booster' = Some(b)
        /\ evaluation_result_list' = Some(res)
        /\ log' = log \o <<Did("update", 0, i, None)>>
                      \o (IF IsNone(valid_sets) THEN <<>>
                          ELSE (IF is_valid_contain_train
                                  THEN <<Did("eval_train", 0, i, Some(EvalTrain(b, metric)))>>
                                  ELSE <<>>)
                               \o <<Did("eval_valid", 0, i, Some(EvalValid(b, metric)))>>)
  /\ pc' = "after" /\ pos' = 1
  /\ UNCHANGED <<entry, exc, args, order, init_iteration, is_valid_contain_train,
                 callbacks_before_iter, callbacks_after_iter, i, cvfolds, results, signal,
                 last_mark>>

\* engine.py 177-186: one after-update callback is called
TrainCallAfter ==
  /\ entry = "train" /\ pc = "after" /\ pos <= Len(callbacks_after_iter)
  /\ \E out \in Outcomes(init_iteration, i, callbacks_after_iter[pos] \in may_mark,
                          callbacks_after_iter[pos] \in may_stop) :
       LET b == IF IsNone(out.mark) THEN Val(booster) ELSE SetAttr(Val(booster), Val(out.mark))
           env == CallbackEnv(Some("booster"), None, i, init_iteration,
                              EndIteration(init_iteration, num_boost_round),
                              evaluation_result_list)
       IN /\ log' = Append(log, Called(callbacks_after_iter[pos], "after", env,
                                       ~IsNone(out.stop)))
          /\ signal' = out.stop
          /\ last_mark' = IF IsNone(out.mark) THEN last_mark ELSE out.mark
          /\ IF ~Caught(out)
               THEN booster' = Some(b) /\ pos' = pos + 1 /\ pc' = pc
               ELSE TrainReturn(b) /\ pos' = pos
  /\ UNCHANGED <<entry, exc, args, order, init_iteration, is_valid_contain_train,
                 callbacks_before_iter, callbacks_after_iter, i, evaluation_result_list,
                 cvfolds, results>>

\* engine.py 160, 187-191: the round is over; the next one starts or train returns
TrainEndRound ==
  /\ entry = "train" /\ pc = "after" /\ pos > Len(callbacks_after_iter)
  /\ i' = i + 1
  /\ pos' = 1
  /\ IF i + 1 < EndIteration(init_iteration, num_boost_round)
       THEN pc' = "before" /\ booster' = booster
       ELSE TrainReturn(Val(booster))
  /\ UNCHANGED <<entry, exc, args, order, init_iteration, is_valid_contain_train,
                 callbacks_before_iter, callbacks_after_iter, evaluation_result_list,
                 cvfolds, results, signal, last_mark, log>>

\* ------------------------------------------------------------ _make_n_folds
Max(a, b) == IF a >= b THEN a ELSE b

\* seq[lo:hi] of Python for 0 <= lo, 0 <= hi
Slice(q, lo, hi) == SubSeq(q, lo + 1, Min(Len(q), hi))

\* seq[:hi] of Python, hi of either sign
SliceTo(q, hi) == IF hi >= 0 THEN Slice(q, 0, hi) ELSE Slice(q, 0, Max(0, Len(q) + hi))

\* the rows of a data set of n rows
Rows(n) == 0..(n - 1)

\* engine.py 236: kstep = int(len(randidx) / nfold)
KStep(n, nf) == n \div nf

\* engine.py 237: randidx[(i * kstep): min(len(randidx), (i + 1) * kstep)] for 0-based i
Block(randidx, kstep, idx) == Slice(randidx, idx * kstep, Min(Len(randidx), (idx + 1) * kstep))

\* engine.py 236-237: idset
Blocks(randidx, nf) == [k \in 1..nf |-> Block(randidx, KStep(Len(randidx), nf), k - 1)]

\* the rows of set S in ascending order
RECURSIVE Ascending(_)
Ascending(S) ==
  IF S = {} THEN <<>>
  ELSE LET m == CHOOSE x \in S : \A y \in S : x <= y IN <<m>> \o Ascending(S \ {m})

\* engine.py 228-229: the test index arrays of StratifiedKFold.split, one per fold:
\* a partition of the rows, each part in ascending order
StratifiedSplits(n, nf) ==
  {[k \in 1..nf |-> Ascending({r \in Rows(n) : f[r] = k})] : f \in [Rows(n) -> 1..nf]}

\* engine.py 196-201: CVBooster(train_set, valid_test, params)
CVBooster(train_rows, valid_rows, pre) ==
  [train_set |-> train_rows, valid_test |-> valid_rows, preprocessed |-> pre,
   booster |-> AddValid(NewBooster, "valid_test", <<"valid", 0>>)]

\* a fold that trains on every block, its own included
TrainRowsAll(idset, k) == Concat(idset)

\* engine.py 241: np.concatenate([idset[i] for i in range(nfold) if k != i]), k 1-based
TrainRows(idset, k) ==
  Concat([j \in 1..(Len(idset) - 1) |-> IF j < k THEN idset[j] ELSE idset[j + 1]])

\* engine.py 239-249: np.concatenate refuses an empty list of arrays, which is
\* what a single fold leaves for its training rows
FoldsOf(idset, pre) ==
  IF Len(idset) = 1
    THEN [err |-> "ValueError", folds |-> <<>>]
    ELSE [err |-> "",
          folds |-> [k \in 1..Len(idset) |-> CVBooster(TrainRows(idset, k), idset[k], pre)]]

\* engine.py 232-237: the index sets of the plain split.  randidx is bound
\* only when shuffle is set; reading it unbound raises UnboundLocalError.
PlainSplit(n, nf, shuf, pre) ==
  IF shuf
    THEN {FoldsOf(Blocks(randidx, nf), pre) : randidx \in Perms(Rows(n))}
    ELSE {[err |-> "UnboundLocalError", folds |-> <<>>]}

\* engine.py 221-249: every result _make_n_folds can have; err is the exception
\* that left it
MakeNFolds(n, nf, strat, shuf, skl, pre) ==
  IF strat
    THEN IF skl
           THEN {FoldsOf(idset, pre) : idset \in StratifiedSplits(n, nf)}
           ELSE {[err |-> "LightGBMError", folds |-> <<>>]}
    ELSE PlainSplit(n, nf, shuf, pre)

\* a call of _make_n_folds on its own
MakeFolds ==
  /\ entry = "_make_n_folds" /\ pc = "call"
  /\ \E r \in MakeNFolds(num_data, nfold, stratified, shuffle, sklearn, fpreproc) :
       /\ cvfolds' = r.folds
       /\ exc' = r.err
       /\ pc' = IF r.err = "" THEN "returned" ELSE "raised"
  /\ UNCHANGED <<entry, args, order, locals, booster, results, signal, last_mark, log>>

\* ------------------------------------------------------------ _agg_cv_result
Values == {1, 2}

\* whether more of the metric is better
HigherBetter(m) == m = "auc"

RECURSIVE SumOf(_)
SumOf(v) == IF v = <<>> THEN 0 ELSE Head(v) + SumOf(Tail(v))

\* np.mean(v) as the fraction num / den
Mean(v) == [num |-> SumOf(v), den |-> Len(v)]

\* np.std(v), the population standard deviation, given by its square num / den
Std(v) ==
  [sq_num |-> Len(v) * SumOf([k \in 1..Len(v) |-> v[k] * v[k]]) - SumOf(v) * SumOf(v),
   sq_den |-> Len(v) * Len(v)]

\* a map that keeps a key for every line it is given
KeysOfEveryLine(lines, seen) == seen \o [j \in 1..Len(lines) |-> lines[j].metric]

\* engine.py 257-260: the keys of cvmap in the order they were first added
RECURSIVE KeysOf(_, _)
KeysOf(lines, seen) ==
  IF lines = <<>> THEN seen
  ELSE KeysOf(Tail(lines),
              IF Head(lines).metric \in Range(seen) THEN seen
              ELSE Append(seen, Head(lines).metric))

\* engine.py 260: cvmap[k]
RECURSIVE ValuesOf(_, _)
ValuesOf(lines, k) ==
  IF lines = <<>> THEN <<>>
  ELSE (IF Head(lines).metric = k THEN <<Head(lines).value>> ELSE <<>>)
       \o ValuesOf(Tail(lines), k)

\* engine.py 259: metric_type[k], the flag of the last line that reports k
RECURSIVE TypeOf(_, _)
TypeOf(lines, k) ==
  IF lines[Len(lines)].metric = k THEN lines[Len(lines)].higher_better
  ELSE TypeOf(SubSeq(lines, 1, Len(lines) - 1), k)

\* engine.py 251-261
AggCvResult(raw) ==
  LET lines == Concat(raw)
      keys == KeysOf(lines, <<>>)
  IN [j \in 1..Len(keys) |->
        [name |-> "cv_agg", metric |-> keys[j], mean |-> Mean(ValuesOf(lines, keys[j])),
         higher_better |-> TypeOf(lines, keys[j]), std |-> Std(ValuesOf(lines, keys[j]))]]

\* a call of _agg_cv_result on its own
Aggregate ==
  /\ entry = "_agg_cv_result" /\ pc = "call"
  /\ evaluation_result_list' = Some(AggCvResult(raw_results))
  /\ pc' = "returned"
  /\ UNCHANGED <<entry, exc, args, order, init_iteration, is_valid_contain_train,
                 callbacks_before_iter, callbacks_after_iter, i, pos, booster, cvfolds,
                 results, signal, last_mark, log>>

\* ---------------------------------------------------------------------- cv
\* engine.py 207-209: CVBooster.eval, the entries of the fold's one validation
\* set, one per metric, with the values vals the model scores
FoldEval(fold, metrics, vals) ==
  [m \in 1..Len(metrics) |->
     [name |-> fold.booster.valid[1].name, metric |-> metrics[m], value |-> vals[m],
      higher_better |-> HigherBetter(metrics[m])]]

\* an update that leaves the fold's booster as it was
FoldUpdateLost(fold) == fold

\* engine.py 203-205: CVBooster.update
FoldUpdate(fold) == [fold EXCEPT !.booster = Update(@)]

\* results[key].append(x) on a defaultdict(list)
AppendTo(r, key, x) ==
  [k \in DOMAIN r \cup {key} |->
     IF k = key THEN (IF key \in DOMAIN r THEN Append(r[key], x) ELSE <<x>>) ELSE r[k]]

\* a loop that records the mean of each metric and not its deviation
RECURSIVE RecordMeanOnly(_, _, _)
RecordMeanOnly(r, res, p) ==
  IF p > Len(res) THEN r
  ELSE RecordMeanOnly(AppendTo(r, <<res[p].metric, "-mean">>, res[p].mean), res, p + 1)

\* engine.py 380-382, from the entry at 1-based position p of res on
RECURSIVE Record(_, _, _)
Record(r, res, p) ==
  IF p > Len(res) THEN r
  ELSE Record(AppendTo(AppendTo(r, <<res[p].metric, "-mean">>, res[p].mean),
                       <<res[p].metric, "-stdv">>, res[p].std),
              res, p + 1)

\* a slice that ends one entry early
TruncatedBeforeBest(history, best_iteration) == SliceTo(history, best_iteration)

\* engine.py 393: results[k][:e.best_iteration + 1]
Truncated(history, best_iteration) == SliceTo(history, best_iteration + 1)

\* engine.py 392-393
TruncateAll(r, best_iteration) == [k \in DOMAIN r |-> Truncated(r[k], best_iteration)]

\* engine.py 326-369: everything up to the first round.  metric is the metric
\* list of params after the metrics argument was merged into it (340-345).
CvSetup ==
  /\ entry = "cv" /\ pc = "call"
  /\ IF train_set # "Dataset"
       THEN /\ pc' = "raised" /\ exc' = "TypeError"
            /\ UNCHANGED <<order, locals, cvfolds, log>>
       ELSE \E made \in MakeNFolds(num_data, nfold, stratified, shuffle, sklearn, fpreproc) :
            IF made.err # ""
              THEN /\ pc' = "raised" /\ exc' = made.err
                   /\ UNCHANGED <<order, locals, cvfolds, log>>
              ELSE LET ord == ResolveOrder(order, callbacks)
                       all == CallbackSet(callbacks) \cup CvMade(shorthand)
                   IN /\ order' = ord
                      /\ cvfolds' = made.folds
                      /\ callbacks_before_iter' \in SortedAgain(BeforeGroup(all, before_iteration),
                                                                 ord, callbacks, previous, "before")
                      /\ callbacks_after_iter' \in SortedAgain(AfterGroup(all, before_iteration),
                                                                ord, callbacks, previous, "after")
                      /\ init_iteration' = 0
                      /\ is_valid_contain_train' = FALSE
                      /\ i' = 0
                      /\ pos' = 1
                      /\ evaluation_result_list' = None
                      /\ log' = log
                      /\ exc' = exc
                      /\ pc' = IF num_boost_round > 0 THEN "before" ELSE "returned"
  /\ UNCHANGED <<entry, args, booster, results, signal, last_mark>>

\* engine.py 370-376: one before-update callback is called
CvCallBefore ==
  /\ entry = "cv" /\ pc = "before" /\ pos <= Len(callbacks_before_iter)
  /\ \E out \in Outcomes(0, i, FALSE, callbacks_before_iter[pos] \in may_stop) :
       LET env == CallbackEnv(None, Some("cvfolds"), i, 0, num_boost_round, None)
       IN /\ log' = Append(log, Called(callbacks_before_iter[pos], "before", env,
                                       ~IsNone(out.stop)))
          /\ signal' = out.stop
          /\ IF IsNone(out.stop)
               THEN pos' = pos + 1 /\ UNCHANGED <<pc, exc>>
               ELSE pc' = "raised" /\ exc' = "EarlyStopException" /\ pos' = pos
  /\ UNCHANGED <<entry, args, order, init_iteration, is_valid_contain_train,
                 callbacks_before_iter, callbacks_after_iter, i, evaluation_result_list,
                 booster, cvfolds, results, last_mark>>

\* engine.py 377-382: every fold is updated, then every fold is evaluated, and
\* the aggregate of the round is recorded
CvUpdate ==
  /\ entry = "cv" /\ pc = "before" /\ pos > Len(callbacks_before_iter)
  /\ \E vals \in [1..Len(cvfolds) -> [1..Len(metric) -> Values]] :
       LET folds == [k \in 1..Len(cvfolds) |-> FoldUpdate(cvfolds[k])]
           raw == [k \in 1..Len(folds) |-> FoldEval(folds[k], metric, vals[k])]
           res == AggCvResult(raw)
       IN /\ cvfolds' = folds
          /\ evaluation_result_list' = Some(res)
          /\ results' = Record(results, res, 1)
          /\ log' = log \o [k \in 1..Len(folds) |-> Did("update", k, i, None)]
                        \o [k \in 1..Len(folds) |-> Did("eval", k, i, Some(raw[k]))]
  /\ pc' = "after" /\ pos' = 1
  /\ UNCHANGED <<entry, exc, args, order, init_iteration, is_valid_contain_train,
                 callbacks_before_iter, callbacks_after_iter, i, booster, signal, last_mark>>

\* engine.py 383-394: one after-update callback is called
CvCallAfter ==
  /\ entry = "cv" /\ pc = "after" /\ pos <= Len(callbacks_after_iter)
  /\ \E out \in Outcomes(0, i, FALSE, callbacks_after_iter[pos] \in may_stop) :
       LET env == CallbackEnv(None, Some("cvfolds"), i, 0, num_boost_round,
                              evaluation_result_list)
       IN /\ log' = Append(log, Called(callbacks_after_iter[pos], "after", env,
                                       ~IsNone(out.stop)))
          /\ signal' = out.stop
          /\ IF ~Caught(out)
               THEN pos' = pos + 1 /\ UNCHANGED <<pc, results>>
               ELSE /\ results' = TruncateAll(results, Val(out.stop))
                    /\ pc' = "returned" /\ pos' = pos
  /\ UNCHANGED <<entry, exc, args, order, init_iteration, is_valid_contain_train,
                 callbacks_before_iter, callbacks_after_iter, i, evaluation_result_list,
                 booster, cvfolds, last_mark>>

\* engine.py 369, 395: the round is over; the next one starts or cv returns
CvEndRound ==
  /\ entry = "cv" /\ pc = "after" /\ pos > Len(callbacks_after_iter)
  /\ i' = i + 1
  /\ pos' = 1
  /\ pc' = IF i + 1 < num_boost_round THEN "before" ELSE "returned"
  /\ UNCHANGED <<entry, exc, args, order, init_iteration, is_valid_contain_train,
                 callbacks_before_iter, callbacks_after_iter, evaluation_result_list,
                 booster, cvfolds, results, signal, last_mark, log>>

\* ------------------------------------------------------------ specifications
\* the state before the call
NotStarted ==
  /\ pc = "call" /\ exc = ""
  /\ init_iteration = 0 /\ is_valid_contain_train = FALSE
  /\ callbacks_before_iter = <<>> /\ callbacks_after_iter = <<>>
  /\ i = 0 /\ pos = 1 /\ evaluation_result_list = None
  /\ booster = None /\ cvfolds = <<>> /\ results = <<>> /\ signal = None
  /\ last_mark = None /\ log = <<>>
  /\ previous = None

\* the callbacks the call will use
Used == CallbackSet(callbacks) \cup (IF entry = "train" THEN TrainMade(shorthand) ELSE CvMade(shorthand))

\* Attributes of the callback objects at the call.  A callback the caller
\* passes has an order of userOrders or none; a callback the callback module
\* made has one of madeOrders; a callback the call does not use is left plain.
CallbackAttributes(userOrders, madeOrders) ==
  \E uo \in [CallbackSet(callbacks) -> userOrders],
     mo \in [Used \ UserCallbacks -> madeOrders],
     bi \in [Used -> BOOLEAN] :
    /\ order = [cb \in AllCallbacks |->
                  IF cb \in DOMAIN uo THEN uo[cb]
                  ELSE IF cb \in DOMAIN mo THEN Some(mo[cb])
                  ELSE IF cb \in UserCallbacks THEN None ELSE Some(0)]
    /\ before_iteration = [cb \in AllCallbacks |-> cb \in Used /\ bi[cb]]
    /\ order_at_call = order

\* arguments of a call that cv and the fold partitioner read and train does not
NoFoldArguments ==
  /\ num_data = 0 /\ nfold = 2 /\ stratified = FALSE /\ shuffle = TRUE
  /\ sklearn = TRUE /\ fpreproc = FALSE

\* the argument that only a call of _agg_cv_result on its own reads
NoAggArguments == raw_results = <<>>

Names(n) == [k \in 1..n |-> <<"name", k>>]

\* the callbacks that may store a marker or raise the Early-Stop Signal: the
\* caller's first callback and the early stopping callback
Stoppers == {1, CbEarly}

\* Calls of train and cv: rounds, warm start, callbacks that mark and stop.
\* The caller's callbacks are listed in ascending order here; SpecOrder has
\* the lists in every order.
Init ==
  /\ entry \in {"train", "cv"}
  /\ num_boost_round \in 0..MaxRounds
  /\ init_model \in {None} \cup {Some(k) : k \in WarmStarts}
  /\ train_set = "Dataset"
  /\ valid_sets \in {None, Some(<<"train_set", "valid_a">>)}
  /\ valid_names = None
  /\ callbacks \in {None} \cup {Some(Ascending(S)) : S \in SUBSET UserCallbacks}
  /\ shorthand \in {{}, {"early_stopping_rounds"}}
  /\ metric = <<"l2">>
  /\ num_data = 2 /\ nfold = 2 /\ stratified = FALSE /\ shuffle = TRUE
  /\ sklearn = TRUE /\ fpreproc = FALSE
  /\ CallbackAttributes({None}, {0})
  /\ may_mark = Used \cap Stoppers /\ may_stop = Used \cap Stoppers
  /\ entry = "cv" => IsNone(valid_sets) /\ init_model # Some(0)
  /\ NoAggArguments
  /\ NotStarted

TrainNext == TrainSetup \/ TrainCallBefore \/ TrainUpdate \/ TrainCallAfter \/ TrainEndRound

CvNext == CvSetup \/ CvCallBefore \/ CvUpdate \/ CvCallAfter \/ CvEndRound

Next == TrainNext \/ CvNext

Spec == Init /\ [][Next]_vars

\* Calls of train and cv for one round with every list of callbacks, with and
\* without order attributes, the same callback listed more than once, beside
\* the printing callback that verbose_eval adds; no callback stops the run.
InitOrder ==
  /\ entry \in {"train", "cv"}
  /\ num_boost_round = 1
  /\ init_model = None
  /\ train_set = "Dataset"
  /\ valid_sets = None
  /\ valid_names = None
  /\ callbacks \in {None} \cup {Some(q) : q \in SeqsUpTo(UserCallbacks, NumCallbacks + 1)}
  /\ shorthand = {"verbose_eval"}
  /\ metric = <<>>
  /\ num_data = 2 /\ nfold = 2 /\ stratified = FALSE /\ shuffle = TRUE
  /\ sklearn = TRUE /\ fpreproc = FALSE
  /\ CallbackAttributes({None} \cup {Some(o) : o \in ExplicitOrders}, {0})
  /\ may_mark = {} /\ may_stop = {}
  /\ NoAggArguments
  /\ NotStarted

SpecOrder == InitOrder /\ [][Next]_vars

\* Calls of train with every valid_sets and valid_names.
InitValid ==
  /\ entry = "train"
  /\ num_boost_round \in 0..1
  /\ init_model = None
  /\ train_set \in {"Dataset", "not_a_dataset"}
  /\ valid_sets \in {None} \cup {Some(q) : q \in SeqsUpTo(ValidObjects, MaxValidSets)}
  /\ valid_names \in {None} \cup {Some(Names(n)) : n \in 0..MaxValidSets}
  /\ callbacks \in {None, Some(<<1>>)}
  /\ shorthand = {}
  /\ metric \in {<<"l2">>, <<"l2", "auc">>}
  /\ NoFoldArguments
  /\ CallbackAttributes({None}, {0})
  /\ may_mark = {} /\ may_stop = {}
  /\ NoAggArguments
  /\ NotStarted

SpecValid == InitValid /\ [][TrainNext]_vars

\* Calls of _make_n_folds.
InitFolds ==
  /\ entry = "_make_n_folds"
  /\ num_boost_round = 0
  /\ init_model = None
  /\ train_set = "Dataset"
  /\ valid_sets = None
  /\ valid_names = None
  /\ callbacks = None
  /\ shorthand = {}
  /\ metric = <<>>
  /\ num_data \in 0..MaxRows
  /\ nfold \in 1..MaxFolds
  /\ stratified \in BOOLEAN /\ shuffle \in BOOLEAN
  /\ sklearn \in BOOLEAN /\ fpreproc \in BOOLEAN
  /\ CallbackAttributes({None}, {0})
  /\ may_mark = {} /\ may_stop = {}
  /\ NoAggArguments
  /\ NotStarted

SpecFolds == InitFolds /\ [][MakeFolds]_vars

\* the metrics a cross-validation may be asked for
Metrics == {"l2", "auc"}

\* the results one fold hands back for the metrics ms: one line per metric, in
\* the order listed, with the values vals and the flags hb
FoldLines(listed, vals, hb) ==
  [m \in 1..Len(listed) |->
     [name |-> <<"valid", 0>>, metric |-> listed[m], value |-> vals[listed[m]],
      higher_better |-> hb[listed[m]]]]

\* Calls of _agg_cv_result: up to MaxFolds folds that report the same metrics,
\* each in an order of its own.
InitAgg ==
  /\ entry = "_agg_cv_result"
  /\ num_boost_round = 0
  /\ init_model = None
  /\ train_set = "Dataset"
  /\ valid_sets = None
  /\ valid_names = None
  /\ callbacks = None
  /\ shorthand = {}
  /\ metric = <<>>
  /\ NoFoldArguments
  /\ \E ms \in SUBSET Metrics, n \in 0..MaxFolds, hb \in [Metrics -> BOOLEAN] :
       \E listed \in [1..n -> Perms(ms)], vals \in [1..n -> [ms -> Values]] :
         raw_results = [k \in 1..n |-> FoldLines(listed[k], vals[k], hb)]
  /\ CallbackAttributes({None}, {0})
  /\ may_mark = {} /\ may_stop = {}
  /\ NotStarted

SpecAgg == InitAgg /\ [][Aggregate]_vars

\* the callback lists a process hands to its calls one after the other
CallbackLists == {None} \cup {Some(q) : q \in SeqsUpTo(UserCallbacks, NumCallbacks)}

\* The process calls train or cv once more after a call is over.  The callback
\* objects are the same ones, with the attributes the earlier call left on
\* them; the list may be another one.
CallAgain ==
  /\ entry \in {"train", "cv"} /\ pc \in {"returned", "raised"} /\ IsNone(previous)
  /\ previous' = Some([entry |-> entry, callbacks |-> callbacks,
                       order_at_call |-> order_at_call, order |-> order,
                       before |-> callbacks_before_iter, after |-> callbacks_after_iter])
  /\ entry' \in {"train", "cv"}
  /\ callbacks' \in CallbackLists
  /\ order_at_call' = order
  /\ pc' = "call" /\ exc' = ""
  /\ init_iteration' = 0 /\ is_valid_contain_train' = FALSE
  /\ callbacks_before_iter' = <<>> /\ callbacks_after_iter' = <<>>
  /\ i' = 0 /\ pos' = 1 /\ evaluation_result_list' = None
  /\ booster' = None /\ cvfolds' = <<>> /\ results' = <<>> /\ signal' = None
  /\ last_mark' = None /\ log' = <<>>
  /\ UNCHANGED <<num_boost_round, init_model, train_set, valid_sets, valid_names,
                 shorthand, metric, num_data, nfold, stratified, shuffle, sklearn,
                 fpreproc, raw_results, before_iteration, may_mark, may_stop, order>>

\* Two calls of train or cv, one after the other, that share callback objects:
\* the order attributes are resolved in each.  No round is asked for, so a call
\* is over once its callbacks are sorted.
InitAgain ==
  /\ entry \in {"train", "cv"}
  /\ num_boost_round = 0
  /\ init_model = None
  /\ train_set = "Dataset"
  /\ valid_sets = None
  /\ valid_names = None
  /\ callbacks \in CallbackLists
  /\ shorthand = {}
  /\ metric = <<>>
  /\ num_data = 2 /\ nfold = 2 /\ stratified = FALSE /\ shuffle = TRUE
  /\ sklearn = TRUE /\ fpreproc = FALSE
  /\ \E uo \in [UserCallbacks -> {None, Some(-1)}], bi \in [UserCallbacks -> BOOLEAN] :
       /\ order = [cb \in AllCallbacks |-> IF cb \in UserCallbacks THEN uo[cb] ELSE Some(0)]
       /\ before_iteration = [cb \in AllCallbacks |-> cb \in UserCallbacks /\ bi[cb]]
  /\ order_at_call = order
  /\ may_mark = {} /\ may_stop = {}
  /\ NoAggArguments
  /\ NotStarted

SpecAgain == InitAgain /\ [][TrainSetup \/ CvSetup \/ CallAgain]_vars

\* ================================================================== claims
\* the log entries of kind op
Entries(op) == SelectSeq(log, LAMBDA e : e.op = op)

\* no callback of the call has raised the Early-Stop Signal
NoStopRaised == \A p \in DOMAIN log : ~log[p].raised

\* the rounds whose update step was executed
RoundsRun == Cardinality({log[p].iteration : p \in {q \in DOMAIN log : log[q].op = "update"}})

\* C1: a call of train with round budget R and warm-start count s in which no
\* callback raises the Early-Stop Signal and no best_iteration marker is set
\* makes exactly R update calls, for the rounds s, s+1, ..., s+R-1 in that
\* order, and returns a booster whose best_iteration is R.
C1_ExactlyRUpdates ==
  (/\ entry = "train" /\ pc = "returned"
   /\ NoStopRaised /\ IsNone(Val(booster).attr_best_iteration))
  => LET s == IF IsNone(init_model) THEN 0 ELSE Val(init_model)
         ups == Entries("update")
     IN /\ Len(ups) = num_boost_round
        /\ \A k \in 1..Len(ups) : ups[k].iteration = s + k - 1
        /\ Val(booster).num_update = num_boost_round
        /\ Val(booster).best_iteration = Some(num_boost_round)

\* a warm-started train of two rounds with callbacks has returned without a stop
C1_Witness ==
  /\ entry = "train" /\ pc = "returned"
  /\ NoStopRaised /\ IsNone(Val(booster).attr_best_iteration)
  /\ num_boost_round = 2 /\ init_model = Some(9)
  /\ Len(Entries("callback")) >= 4 /\ Val(booster).num_update = 2

\* C2: in train and in cv, once an after-update callback has raised the
\* Early-Stop Signal in round i, that call is the last thing the controller
\* does: no later after-update callback of round i, and no callback, update or
\* evaluation of a later round, follows it, and the controller has returned
\* normally with no exception.
C2_StopEndsTheLoop ==
  \A p \in DOMAIN log :
    (log[p].op = "callback" /\ log[p].phase = "after" /\ log[p].raised)
    => (p = Len(log) /\ pc = "returned" /\ exc = "")

\* an after-update callback stopped a round that had a later after-update
\* callback to call and a later round to run
C2_Witness ==
  /\ pc = "returned" /\ log # <<>>
  /\ log[Len(log)].phase = "after" /\ log[Len(log)].raised
  /\ pos < Len(callbacks_after_iter)
  /\ i + 1 < init_iteration + num_boost_round

\* C3: the Early-Stop Signal never escapes train or cv: whenever a callback,
\* before-update or after-update, has raised it, the controller returns
\* normally and the caller never gets the signal as an exception.
C3_SignalNeverEscapes ==
  \A p \in DOMAIN log :
    log[p].raised => (pc = "returned" /\ exc # "EarlyStopException")

\* the aggregate results handed to the after-update callbacks of round r
RoundResult(r) ==
  LET p == CHOOSE q \in DOMAIN log :
             log[q].op = "callback" /\ log[q].phase = "after" /\ log[q].iteration = r
  IN Val(Val(log[p].env).evaluation_result_list)

\* the value of history key in the aggregate results res
ValueIn(res, key) ==
  LET e == CHOOSE x \in Range(res) : x.metric = key[1]
  IN IF key[2] = "-mean" THEN e.mean ELSE e.std

\* C4: when cv gets an Early-Stop Signal carrying best index b, every history
\* of the returned mapping has exactly b+1 entries, and they are the values
\* recorded for the rounds 0..b in round order.
C4_TruncatedToBest ==
  (entry = "cv" /\ pc = "returned" /\ ~IsNone(signal))
  => \A key \in DOMAIN results :
       /\ Len(results[key]) = Val(signal) + 1
       /\ \A r \in 0..Val(signal) : results[key][r + 1] = ValueIn(RoundResult(r), key)

\* cv was stopped in its second round with the first round as the best one,
\* the two rounds having scored differently, and a history was cut to one entry
C4_Witness ==
  /\ entry = "cv" /\ pc = "returned" /\ signal = Some(0) /\ i = 1
  /\ <<"l2", "-mean">> \in DOMAIN results
  /\ results[<<"l2", "-mean">>] = <<ValueIn(RoundResult(0), <<"l2", "-mean">>)>>
  /\ ValueIn(RoundResult(0), <<"l2", "-mean">>) # ValueIn(RoundResult(1), <<"l2", "-mean">>)

\* the metrics the folds have reported
Reported ==
  UNION {{e.metric : e \in Range(Val(log[p].result))} :
           p \in {q \in DOMAIN log : log[q].op = "eval"}}

\* the returned mapping has a mean and a deviation history for every metric reported
BothKeys ==
  \A m \in Reported : <<m, "-mean">> \in DOMAIN results /\ <<m, "-stdv">> \in DOMAIN results

\* C5 as stated: for every cv run, stopped early or not, the returned mapping
\* has a '<metric>-mean' and a '<metric>-stdv' key for every metric the folds
\* reported, and every history is as long as the number of rounds whose update
\* step was executed.
C5_LengthIsRoundsRun ==
  (entry = "cv" /\ pc = "returned")
  => /\ BothKeys
     /\ \A key \in DOMAIN results : Len(results[key]) = RoundsRun

\* C5, amended: the returned mapping has both keys for every metric the folds
\* reported; when no Early-Stop Signal was raised every history is as long as
\* the number of rounds whose update step was executed, and after a signal
\* carrying best index b every history has b+1 entries, which is no more than
\* that number of rounds.
C5_LengthIsRoundsRunOrBest ==
  (entry = "cv" /\ pc = "returned")
  => /\ BothKeys
     /\ \A key \in DOMAIN results :
          /\ Len(results[key]) = IF IsNone(signal) THEN RoundsRun ELSE Val(signal) + 1
          /\ Len(results[key]) <= RoundsRun

\* cv ran two rounds to the end and returned two entries in both histories
C5_Witness ==
  /\ entry = "cv" /\ pc = "returned" /\ IsNone(signal) /\ RoundsRun = 2
  /\ Reported = {"l2"}
  /\ Len(results[<<"l2", "-mean">>]) = 2 /\ Len(results[<<"l2", "-stdv">>]) = 2

\* C6: after train returns, by running its budget or by an Early-Stop Signal,
\* the booster's best_iteration is m+1 if a callback stored the marker m, and
\* num_boost_round otherwise; so a stop at round b by a callback that stored b
\* gives best_iteration = b+1.
C6_BestIteration ==
  (entry = "train" /\ pc = "returned")
  => Val(booster).best_iteration =
       Some(IF IsNone(last_mark) THEN num_boost_round ELSE Val(last_mark) + 1)

\* train was stopped in round 10 by a callback that stored the marker 10
C6_Witness ==
  /\ entry = "train" /\ pc = "returned" /\ ~IsNone(signal)
  /\ i = 10 /\ last_mark = Some(10)
  /\ Val(booster).attr_best_iteration = Some(<<1, 0>>)
  /\ Val(booster).best_iteration = Some(11)

\* the callback had no order attribute when the call began
Lacking(cb) == IsNone(order_at_call[cb])

\* the position at which callback cb is first listed in callbacks
FirstPos(cb) ==
  CHOOSE p \in DOMAIN Val(callbacks) :
    Val(callbacks)[p] = cb /\ \A q \in 1..(p - 1) : Val(callbacks)[q] # cb

\* log entries p and q are calls of callbacks in the same sweep of the same round
SameSweep(p, q) ==
  /\ log[p].op = "callback" /\ log[q].op = "callback"
  /\ log[p].phase = log[q].phase /\ log[p].iteration = log[q].iteration

\* C7: for every list of callbacks passed to train or cv, in every round (a) a
\* callback that lacked an order is called before every callback of its group
\* whose explicit order is non-negative, (b) callbacks that lacked an order are
\* called in the order they were registered, and (c) a callback is called at
\* most once in a sweep however often it is listed, and exactly once in every
\* sweep of a call that ran all its rounds.
C7_OrderOfCalls ==
  /\ \A p, q \in DOMAIN log :
       (p < q /\ SameSweep(p, q))
       => /\ ~(/\ Lacking(log[q].who) /\ ~Lacking(log[p].who)
               /\ Val(order_at_call[log[p].who]) >= 0)
          /\ (Lacking(log[p].who) /\ Lacking(log[q].who))
               => FirstPos(log[p].who) < FirstPos(log[q].who)
          /\ log[p].who # log[q].who
  /\ (pc = "returned" /\ NoStopRaised)
       => \A cb \in Used : \A r \in init_iteration..(init_iteration + num_boost_round - 1) :
            Cardinality({p \in DOMAIN log :
                           /\ log[p].op = "callback" /\ log[p].who = cb
                           /\ log[p].iteration = r}) = 1

\* a call has run its round with a callback listed twice that carries the
\* order 0 and, listed after it, a callback of the same group that had no
\* order; the printing callback runs in the same sweep
C7_Witness ==
  /\ pc = "returned" /\ NoStopRaised /\ num_boost_round = 1
  /\ callbacks = Some(<<1, 2, 1>>)
  /\ order_at_call[1] = Some(0) /\ Lacking(2)
  /\ ~before_iteration[1] /\ ~before_iteration[2]
  /\ Len(Entries("callback")) = 3
  /\ Entries("callback")[1].who = 2 /\ Entries("callback")[2].who = 1

\* the callbacks of the list that got their order from the call
Assigned == {cb \in CallbackSet(callbacks) : Lacking(cb)}

\* the callbacks of the call that came with an order
Supplied == {cb \in Used : ~Lacking(cb)}

\* default orders rise with the position of first registration
AssignedRising ==
  \A a, b \in Assigned : FirstPos(a) < FirstPos(b) => Val(order[a]) < Val(order[b])

\* C8 as stated: once train or cv has resolved the orders, every default order
\* is strictly less than the explicit order of every callback that came with
\* one, whatever integer that is, and default orders are strictly increasing
\* in registration position.
C8_AutoBelowEveryExplicit ==
  pc # "call"
  => /\ \A a \in Assigned : \A e \in Supplied : Val(order[a]) < Val(order[e])
     /\ AssignedRising

\* C8, amended: every default order is strictly less than every explicit
\* order that is non-negative (default orders are negative, so an explicit
\* order below zero need not be above them), and default orders are strictly
\* increasing in the position of first registration.
C8_AutoBelowNonNegativeExplicit ==
  pc # "call"
  => /\ \A a \in Assigned : \A e \in Supplied :
          Val(order[e]) >= 0 => Val(order[a]) < Val(order[e])
     /\ \A a \in Assigned : Val(order[a]) < 0
     /\ AssignedRising

\* the orders are resolved for two callbacks without an order, the one listed
\* twice, beside a callback of the callback module that carries the order 0
C8_Witness ==
  /\ pc # "call" /\ callbacks = Some(<<2, 1, 2>>) /\ Assigned = {1, 2}
  /\ CbPrint \in Supplied /\ order[CbPrint] = Some(0)
  /\ order[2] = Some(-3) /\ order[1] = Some(-2)

\* the independent validation sets of the call, in the order of valid_sets
Independent == SelectSeq(Val(valid_sets), LAMBDA d : d # "train_set")

\* C9: when valid_sets holds the training set itself, train never passes it to
\* add_valid and eval_valid never evaluates it, and in every round the
\* results handed to the after-update callbacks are the training set's own
\* entries, once, followed by the entries of the independent validation sets.
C9_TrainingSetNotAValidSet ==
  (entry = "train" /\ ~IsNone(valid_sets) /\ "train_set" \in Range(Val(valid_sets)))
  => \A p \in DOMAIN log :
       /\ log[p].op = "add_valid" => Val(log[p].result).data # "train_set"
       /\ log[p].op = "eval_valid"
            => \A e \in Range(Val(log[p].result)) : e.data # "train_set"
       /\ (log[p].op = "callback" /\ log[p].phase = "after")
            => LET res == Val(Val(log[p].env).evaluation_result_list)
                   n == Len(metric)
               IN /\ Len(res) = n * (1 + Len(Independent))
                  /\ \A k \in 1..Len(res) :
                       /\ res[k].metric = metric[((k - 1) % n) + 1]
                       /\ res[k].data = IF k <= n THEN "train_set"
                                        ELSE Independent[(k - 1) \div n]

\* an after-update callback got the results of a round of a call whose
\* valid_sets lists the training set between two other sets, two metrics each
C9_Witness ==
  /\ entry = "train" /\ valid_sets = Some(<<"valid_a", "train_set", "valid_b">>)
  /\ Len(metric) = 2 /\ log # <<>>
  /\ log[Len(log)].op = "callback" /\ log[Len(log)].phase = "after"
  /\ Len(Val(Val(log[Len(log)].env).evaluation_result_list)) = 6

\* C10: _make_n_folds with stratified and shuffle off, on n rows with nfold
\* dividing n (several folds, each of at least one row), returns nfold folds
\* whose validation sets are the row blocks [k*n/nfold, (k+1)*n/nfold) in row
\* order, each fold training on exactly the rows of the other blocks, so that
\* no row is in both sets of a fold.
C10_ContiguousBlocks ==
  (/\ entry = "_make_n_folds" /\ pc # "call"
   /\ ~stratified /\ ~shuffle
   /\ nfold >= 2 /\ num_data >= nfold /\ num_data % nfold = 0)
  => /\ pc = "returned"
     /\ Len(cvfolds) = nfold
     /\ \A k \in 1..Len(cvfolds) :
          LET size == num_data \div nfold IN
          /\ cvfolds[k].valid_test = [j \in 1..size |-> (k - 1) * size + j - 1]
          /\ Range(cvfolds[k].train_set) = Rows(num_data) \ Range(cvfolds[k].valid_test)
          /\ Len(cvfolds[k].train_set) = num_data - size

\* the validation blocks of the folds, in fold order
ValidBlocks == [k \in 1..Len(cvfolds) |-> cvfolds[k].valid_test]

\* C11: the plain shuffled split of n rows into N folds (N at least 2, n at
\* least N) returns N validation blocks of which the first N-1 hold n div N
\* rows each and the last holds the remaining n - (N-1)*(n div N) rows, so
\* that every row of the data set is in exactly one validation block.
C11_BlocksCoverAllRows ==
  (/\ entry = "_make_n_folds" /\ pc = "returned"
   /\ ~stratified /\ shuffle /\ nfold >= 2 /\ num_data >= nfold)
  => /\ Len(cvfolds) = nfold
     /\ \A k \in 1..(nfold - 1) : Len(ValidBlocks[k]) = num_data \div nfold
     /\ Len(ValidBlocks[nfold]) = num_data - (nfold - 1) * (num_data \div nfold)
     /\ \A r \in Rows(num_data) :
          Cardinality({<<k, j>> \in UNION {{k} \X DOMAIN ValidBlocks[k] : k \in 1..nfold} :
                         ValidBlocks[k][j] = r}) = 1

\* the metrics that the folds handed to _agg_cv_result report
MetricsReported ==
  UNION {{raw_results[k][j].metric : j \in DOMAIN raw_results[k]} : k \in DOMAIN raw_results}

\* the lines of fold k for metric m
LinesOf(k, m) == {j \in DOMAIN raw_results[k] : raw_results[k][j].metric = m}

\* the value of metric m in each fold, in fold order
PerFold(m) ==
  [k \in DOMAIN raw_results |-> raw_results[k][CHOOSE j \in LinesOf(k, m) : TRUE].value]

\* C12: _agg_cv_result, given the results of N folds that report the same
\* metrics, each fold in an order of its own, returns exactly one entry per
\* metric; the entry is named "cv_agg", its mean is the sum of the metric's
\* per-fold values divided by N, its deviation is the population standard
\* deviation of those values (the square root of (N*sum(x^2) - sum(x)^2)/N^2),
\* and its flag is the higher_is_better flag the folds report for the metric.
C12_OneAggregatePerMetric ==
  (entry = "_agg_cv_result" /\ pc = "returned")
  => LET res == Val(evaluation_result_list)
         N == Len(raw_results)
     IN /\ Len(res) = Cardinality(MetricsReported)
        /\ {res[j].metric : j \in DOMAIN res} = MetricsReported
        /\ \A j \in DOMAIN res :
             LET v == PerFold(res[j].metric)
                 squares == [k \in DOMAIN v |-> v[k] * v[k]]
             IN /\ res[j].name = "cv_agg"
                /\ res[j].mean.den > 0
                /\ res[j].mean.num * N = SumOf(v) * res[j].mean.den
                /\ res[j].std.sq_den > 0
                /\ res[j].std.sq_num * N * N
                     = (N * SumOf(squares) - SumOf(v) * SumOf(v)) * res[j].std.sq_den
                /\ \A k \in DOMAIN raw_results : \A l \in LinesOf(k, res[j].metric) :
                     raw_results[k][l].higher_better = res[j].higher_better

\* three folds report two metrics, not all in the same order and not all with
\* the same value, and the aggregate has come back
C12_Witness ==
  /\ entry = "_agg_cv_result" /\ pc = "returned"
  /\ Len(raw_results) = 3 /\ MetricsReported = Metrics
  /\ raw_results[1][1].metric = "l2" /\ raw_results[2][1].metric = "auc"
  /\ PerFold("l2") = <<1, 2, 2>>
  /\ Len(Val(evaluation_result_list)) = 2
  /\ Val(evaluation_result_list)[1].std.sq_num > 0

\* the call was handed something that is no Dataset: as its training set, or,
\* in train, in a slot of valid_sets
NotADatasetGiven ==
  \/ train_set # "Dataset"
  \/ /\ entry = "train" /\ ~IsNone(valid_sets)
     /\ \E p \in DOMAIN Val(valid_sets) :
          ~IsTrainSet(Val(valid_sets)[p]) /\ ~IsDataset(Val(valid_sets)[p])

\* C13: a call of train or cv whose train_set is no Dataset, or a call of
\* train with an element of valid_sets (other than the training set itself)
\* that is no Dataset, fails with a TypeError before any round runs: no
\* booster and no fold is constructed, no callback is called, nothing is
\* updated or evaluated.
C13_TypeErrorBeforeAnyRound ==
  (entry \in {"train", "cv"} /\ pc # "call" /\ NotADatasetGiven)
  => /\ pc = "raised" /\ exc = "TypeError"
     /\ booster = None /\ cvfolds = <<>> /\ log = <<>>

Steps == SelectSeq(log, LAMBDA e : e.op # "add_valid")

\* where a step belongs in its round: 1 a before-update callback, 2 an update,
\* 3 an evaluation, 4 an after-update callback; 0 is the registration of a
\* validation set, made before the first round
Rank(e) ==
  IF e.op = "callback" THEN (IF e.phase = "before" THEN 1 ELSE 4)
  ELSE IF e.op = "update" THEN 2
  ELSE IF e.op = "add_valid" THEN 0 ELSE 3

\* the steps of round r
StepsOf(r) == SelectSeq(Steps, LAMBDA e : e.iteration = r)

\* the callbacks called in the sweep of round r before or after the update
Sweep(r, phase) ==
  LET calls == SelectSeq(StepsOf(r), LAMBDA e : e.op = "callback" /\ e.phase = phase)
  IN [k \in DOMAIN calls |-> calls[k].who]

\* the callbacks of the call that ask to run before, or after, the update
Group(phase) == {cb \in Used : before_iteration[cb] = (phase = "before")}

\* the callbacks called so far in the sweep of round r before or after the update
CalledIn(r, phase) ==
  {log[q].who : q \in {x \in DOMAIN log : /\ log[x].op = "callback" /\ log[x].phase = phase
                                          /\ log[x].iteration = r}}

\* the evaluation results of round r, as the controller puts them together
EvaluatedIn(r) ==
  LET evals == SelectSeq(log, LAMBDA e : e.iteration = r /\ Rank(e) = 3)
      each == [k \in DOMAIN evals |-> Val(evals[k].result)]
  IN IF entry = "cv" THEN AggCvResult(each) ELSE Concat(each)

\* the rounds that have steps
RoundsBegun == {Steps[p].iteration : p \in DOMAIN Steps}

\* C15: in every round of train and cv the steps come in this sequence: the
\* before-update callbacks, all of them, in ascending resolved order, each
\* given a snapshot without evaluation results; then the update(s); then the
\* evaluation; then the after-update callbacks in ascending resolved order,
\* each given the evaluation results of that round; and no step of round i+1
\* comes before the after-update sweep of round i has called all its callbacks.
C15_StepsOfARound ==
  (entry \in {"train", "cv"})
  => /\ \A p \in DOMAIN log :
          \* a step is followed by a later step of its round, or, once the
          \* after-update sweep is through, by the first step of the next round
          /\ p < Len(log)
               => \/ /\ log[p + 1].iteration = log[p].iteration
                     /\ Rank(log[p]) <= Rank(log[p + 1])
                  \/ /\ log[p + 1].iteration = log[p].iteration + 1
                     /\ Rank(log[p]) >= 2
                     /\ CalledIn(log[p].iteration, "after") = Group("after")
          \* the update comes when every before-update callback has been called
          /\ log[p].op = "update"
               => /\ CalledIn(log[p].iteration, "before") = Group("before")
                  /\ Cardinality({q \in DOMAIN log : /\ log[q].op = "update"
                                                     /\ log[q].iteration = log[p].iteration})
                       = (IF entry = "cv" THEN nfold ELSE 1)
          /\ log[p].op = "callback"
               => /\ log[p].who \in Group(log[p].phase)
                  /\ Rank(log[p]) = 1 => IsNone(Val(log[p].env).evaluation_result_list)
                  /\ Rank(log[p]) = 4
                       => Val(log[p].env).evaluation_result_list
                            = Some(EvaluatedIn(log[p].iteration))
     \* a sweep calls no callback twice and calls them in ascending order
     /\ \A p, q \in DOMAIN log :
          (p < q /\ SameSweep(p, q))
            => /\ log[p].who # log[q].who
               /\ Val(order[log[p].who]) <= Val(order[log[q].who])

\* a warm-started train with a validation set is in its second round: each
\* round so far called a callback before the update and one after it, and the
\* round that is over evaluated two data sets
C15_Witness ==
  /\ entry = "train" /\ init_model = Some(9) /\ ~IsNone(valid_sets)
  /\ RoundsBegun = {9, 10}
  /\ Len(Sweep(9, "before")) = 1 /\ Len(Sweep(9, "after")) = 2
  /\ Len(Sweep(10, "before")) = 1 /\ Len(Sweep(10, "after")) = 1
  /\ Len(EvaluatedIn(9)) = 2

\* the updates and evaluations of round r: which fold, in the order made
FoldSteps(r) ==
  LET made == SelectSeq(StepsOf(r), LAMBDA e : Rank(e) \in {2, 3})
  IN [k \in DOMAIN made |-> <<made[k].op, made[k].who>>]

\* every fold updated once in fold order, then every fold evaluated once in
\* fold order
UpdatesThenEvals ==
  [k \in 1..(2 * nfold) |-> IF k <= nfold THEN <<"update", k>> ELSE <<"eval", k - nfold>>]

\* the rounds cv began: all of them, or the rounds up to the one that was stopped
CvRoundsBegun == IF IsNone(signal) THEN num_boost_round ELSE i + 1

\* C16: in every round of cv every fold is updated exactly once, in fold
\* order, and all the updates come before the evaluations, which are made once
\* per fold in fold order too; and when cv returns, every fold's booster has
\* had as many updates as rounds were begun: i+1 after a stop raised in round
\* i, however short the histories were cut.
C16_FoldsUpdatedInStep ==
  (entry = "cv")
  => /\ \A r \in RoundsBegun : FoldSteps(r) \in {<<>>, UpdatesThenEvals}
     /\ pc = "returned"
          => /\ Len(cvfolds) = nfold
             /\ \A k \in DOMAIN cvfolds : cvfolds[k].booster.num_update = CvRoundsBegun
             /\ \A r \in 0..(CvRoundsBegun - 1) : FoldSteps(r) = UpdatesThenEvals

\* cv has returned after a stop raised in its second round that names the
\* first round as the best: the histories have one entry, the folds two updates
C16_Witness ==
  /\ entry = "cv" /\ pc = "returned" /\ signal = Some(0) /\ i = 1
  /\ \A key \in DOMAIN results : Len(results[key]) = 1
  /\ DOMAIN results # {}
  /\ Len(cvfolds) = 2 /\ cvfolds[1].booster.num_update = 2 /\ cvfolds[2].booster.num_update = 2

\* the validation blocks of the folds other than fold k, in fold order
OtherBlocks(k) ==
  [j \in 1..(Len(ValidBlocks) - 1) |-> IF j < k THEN ValidBlocks[j] ELSE ValidBlocks[j + 1]]

\* C17: the folds the plain shuffled split returns are in fold order, one per
\* validation block; the validation blocks of two folds share no row; the
\* training rows of fold k are exactly the rows of the validation blocks of the
\* other folds; and no row of fold k is both a training and a validation row.
C17_FoldsPartitionTheBlocks ==
  (/\ entry = "_make_n_folds" /\ pc = "returned" /\ ~stratified /\ shuffle)
  => /\ Len(cvfolds) = nfold
     /\ \A k \in DOMAIN cvfolds :
          /\ Range(ValidBlocks[k]) \subseteq Rows(num_data)
          /\ \A j \in DOMAIN cvfolds :
               j # k => Range(ValidBlocks[j]) \cap Range(ValidBlocks[k]) = {}
          /\ cvfolds[k].train_set = Concat(OtherBlocks(k))
          /\ Range(cvfolds[k].train_set)
               = UNION {Range(ValidBlocks[j]) : j \in DOMAIN cvfolds \ {k}}
          /\ Range(cvfolds[k].train_set) \cap Range(cvfolds[k].valid_test) = {}

\* four rows were split into two folds of two shuffled rows each
C17_Witness ==
  /\ entry = "_make_n_folds" /\ pc = "returned" /\ ~stratified /\ shuffle
  /\ num_data = 4 /\ nfold = 2
  /\ ValidBlocks = <<<<3, 0>>, <<2, 1>>>>
  /\ cvfolds[1].train_set = <<2, 1>> /\ cvfolds[2].train_set = <<3, 0>>

\* the snapshots handed to the callbacks so far
Snapshots == {Val(e.env) : e \in Range(Entries("callback"))}

\* C18: every snapshot handed to a callback has exactly one of model and
\* cvfolds set, the model in train and the folds in cv, and has
\* begin_iteration <= iteration < end_iteration; in train begin_iteration is
\* the iteration count of the model the call continues (0 without one) and
\* end_iteration is begin_iteration + num_boost_round; in cv begin_iteration is
\* 0 and end_iteration is num_boost_round, whatever model the call continues.
C18_SnapshotBounds ==
  (entry \in {"train", "cv"})
  => \A env \in Snapshots :
       /\ IsNone(env.model) # IsNone(env.cvfolds)
       /\ IsNone(env.cvfolds) = (entry = "train")
       /\ env.begin_iteration <= env.iteration /\ env.iteration < env.end_iteration
       /\ env.begin_iteration
            = (IF entry = "train" /\ ~IsNone(init_model) THEN Val(init_model) ELSE 0)
       /\ env.end_iteration = env.begin_iteration + num_boost_round

\* a cv that continues a model of nine iterations has called a callback in its
\* second round
C18_Witness ==
  /\ entry = "cv" /\ init_model = Some(9) /\ num_boost_round = 2
  /\ \E env \in Snapshots : env.iteration = 1 /\ env.begin_iteration = 0

\* the name the caller supplied for 1-based slot p of valid_sets, or else the
\* default of the slot
NameAt(p) ==
  IF ~IsNone(valid_names) /\ p <= Len(Val(valid_names)) THEN Val(valid_names)[p]
  ELSE IF IsTrainSet(Val(valid_sets)[p]) THEN <<"training", 0>>
  ELSE DefaultValidName(p - 1)

\* the slots of valid_sets that hold an independent validation set, ascending
IndependentSlots == Ascending({p \in DOMAIN Val(valid_sets) : ~IsTrainSet(Val(valid_sets)[p])})

\* C19: for every valid_sets list of Datasets and every valid_names list,
\* however short, train does not fail over the names; the booster gets the
\* independent validation sets in slot order, each with the name supplied for
\* its slot or else "valid_<slot>", and the training set is evaluated under the
\* name supplied for a slot that holds it or else "training".
C19_NamesResolved ==
  (/\ entry = "train" /\ pc # "call" /\ train_set = "Dataset" /\ ~IsNone(valid_sets)
   /\ \A p \in DOMAIN Val(valid_sets) : IsDataset(Val(valid_sets)[p]))
  => /\ pc # "raised"
     /\ Len(Val(booster).valid) = Len(IndependentSlots)
     /\ \A j \in DOMAIN IndependentSlots :
          /\ Val(booster).valid[j].data = Val(valid_sets)[IndependentSlots[j]]
          /\ Val(booster).valid[j].name = NameAt(IndependentSlots[j])
     /\ is_valid_contain_train
          => Val(booster).train_data_name
               \in {NameAt(p) : p \in {q \in DOMAIN Val(valid_sets) : IsTrainSet(Val(valid_sets)[q])}}

\* C20: in any sequence of calls of train and cv no step changes an order a
\* callback already has, whether it came with the callback or was assigned by an
\* earlier call; and an order a call assigns, for a callbacks list of length n,
\* is one of -n..-1.
C20_OrderNeverOverwritten ==
  [][\A cb \in AllCallbacks :
       /\ ~IsNone(order[cb]) => order'[cb] = order[cb]
       /\ (IsNone(order[cb]) /\ ~IsNone(order'[cb]))
            => /\ ~IsNone(callbacks)
               /\ Val(order'[cb]) \in (0 - Len(Val(callbacks)))..(-1)]_vars

\* a first call gave the order -2 to a callback listed twice; a second call,
\* which lists it second of two, has left it at -2 and has given -2 to the
\* callback listed first
C20_Witness ==
  /\ ~IsNone(previous) /\ pc = "returned"
  /\ Val(previous).callbacks = Some(<<1, 1>>)
  /\ Val(previous).order_at_call[1] = None /\ Val(previous).order[1] = Some(-2)
  /\ callbacks = Some(<<2, 1>>)
  /\ order_at_call[2] = None /\ order[2] = Some(-2) /\ order[1] = Some(-2)

====
